---- MODULE Spec2Model ----
(***************************************************************************)
(* foxpost-watcher: one collection cycle (fetch, filter, classify, emit)   *)
(* and the scheduler that runs it once (one-shot) or on every tick of a    *)
(* ticker (daemon).                                                        *)
(*                                                                         *)
(* The repository carries two revisions of the program, src/main.go and    *)
(* src/unnamed/part_001.  They differ in loadMap and in the dry-run mode   *)
(* (part_001 only).  The variable build says which revision is running.    *)
(***************************************************************************)
EXTENDS Integers, Sequences, FiniteSets, TLC

----------------------------------------------------------------------------
(* Bounds of the model *)

MaxFeed == 2        \* longest feed the upstream endpoint returns
MaxCycles == 2      \* invocations of the collection cycle per process
MaxTime == 2        \* the clock stops advancing here

(* Input domains *)

Builds == {"main.go", "part_001"}
PlaceIDs == {1, 2}
Labels == {"", "normal loaded", "medium loaded", "overloaded", "Overloaded"}
Statuses == {200, 404, 500}
WriteOutcomes == {"ok", "err", "panic"}
NotSet == "<unset>"

----------------------------------------------------------------------------
VARIABLES
    build,          \* the revision of the program that runs
    env,            \* the process environment
    ic,             \* *InstanceConfig
    oneShot,        \* main: oneShot
    healthChecks,   \* calls of influxClient.Health
    pc,             \* where the process is
    now,            \* the wall clock, read from the start of the invocation
    ctxDone,        \* the context of the running invocation has expired
    ts,             \* run: ts, -1 while not captured
    fetchCalls,     \* calls of cl.Do in the running invocation
    statusCode,     \* run: resp.StatusCode, 0 while there is no response
    apmsData,       \* run: the decoded feed
    idx,            \* run: position of the range loop in apmsData
    influx,         \* points the backend accepted in the running invocation
    writeCalls,     \* calls of writeAPI.WritePoint in the running invocation
    dryLog,         \* dry-run lines logged in the running invocation
    result,         \* what the invocation returned
    ticker,         \* daemon: the ticker exists
    tickPending,    \* a tick waits in ticker.C (capacity 1)
    cyclesStarted,  \* invocations started
    ticksConsumed,  \* ticks the daemon loop received
    errorsLogged    \* error and panic lines safeInvoke logged

cfgVars == <<build, env, ic, oneShot, healthChecks>>
runVars == <<ctxDone, ts, fetchCalls, statusCode, apmsData, idx, influx,
             writeCalls, dryLog, result>>
schedVars == <<ticker, tickPending, cyclesStarted, ticksConsumed,
               errorsLogged>>
vars == <<cfgVars, runVars, schedVars, pc, now>>

----------------------------------------------------------------------------
(* Pure helpers *)

\* a load value: uint8 in part_001, float32 in main.go (kept as a fraction)
Num(n, d) == [num |-> n, den |-> d]

\* var loadMap of src/main.go: map[string]float32
loadMapMainGo ==
    [l \in {"normal loaded", "medium loaded", "overloaded"} |->
        CASE l = "normal loaded" -> Num(3, 10)
          [] l = "medium loaded" -> Num(7, 10)
          [] l = "overloaded" -> Num(1, 1)]

\* var loadMap of src/unnamed/part_001: map[string]uint8
loadMapPart001 ==
    [l \in {"", "normal loaded", "medium loaded", "overloaded"} |->
        CASE l = "" -> Num(10, 1)
          [] l = "normal loaded" -> Num(10, 1)
          [] l = "medium loaded" -> Num(70, 1)
          [] l = "overloaded" -> Num(100, 1)]

\* a lookup that folds the case of the label
loadMap_CaseFolded(b) ==
    LET m == IF b = "main.go" THEN loadMapMainGo ELSE loadMapPart001 IN
    [l \in DOMAIN m \cup {"Overloaded"} |->
        IF l = "Overloaded" THEN m["overloaded"] ELSE m[l]]

loadMap(b) == IF b = "main.go" THEN loadMapMainGo ELSE loadMapPart001

\* loadVal, ok := loadMap[apmData.Load]
LoadOk(b, l) == l \in DOMAIN loadMap(b)
LoadVal(b, l) == loadMap(b)[l]

\* a membership test that looks at the first element only
Contains_FirstOnly(s, v) == Len(s) > 0 /\ s[1] = v

\* slices.Contains: linear scan of the configured list
Contains(s, v) == \E i \in 1..Len(s) : s[i] = v

DigitStr == <<"0", "1", "2", "3", "4", "5", "6", "7", "8", "9">>

RECURSIVE FormatUint(_)
\* strconv.FormatUint(n, 10)
FormatUint(n) ==
    IF n < 10 THEN DigitStr[n + 1]
    ELSE FormatUint(n \div 10) \o DigitStr[(n % 10) + 1]

----------------------------------------------------------------------------
(* Types of the program *)

\* type APMData; the feed decides every field, the model draws a feed record
\* from one record per (place_id, load) pair
APM(p, l) ==
    [PlaceID |-> p,
     OperatorID |-> IF p = 1 THEN "A" ELSE "B",
     Name |-> IF p = 1 THEN "X" ELSE "Y",
     GeoLat |-> 470 + p,
     GeoLng |-> 190 + p,
     Load |-> l]

APMs == {APM(p, l) : p \in PlaceIDs, l \in Labels}

Feeds == UNION {[1..n -> APMs] : n \in 0..MaxFeed}

\* a token of FOXPOST_PLACE_IDS after strings.Split: a place id, or -1 for a
\* token strconv.ParseUint rejects
Tokens == PlaceIDs \cup {-1}
TokenLists == UNION {[1..n -> Tokens] : n \in 1..2}

\* the process environment: the variables loadConfig and main read
Envs ==
    [FOXPOST_PLACE_IDS : [set : {TRUE}, toks : TokenLists]
                         \cup {[set |-> FALSE, toks |-> <<>>]},
     INFLUX_SERVER : BOOLEAN,       \* URL, TOKEN, ORG and BUCKET are set
     INFLUX_MEASUREMENT : {NotSet},
     DRY_RUN : BOOLEAN,
     ONESHOT : BOOLEAN]

NoConfig ==
    [placeIDs |-> <<>>, influxClient |-> FALSE,
     influxMeasurement |-> NotSet, dryRun |-> FALSE]

\* a point stamped with the time of its own record, not with ts
NewPoint_StampedPerRecord(b, measurement, apmData, t) ==
    [measurement |-> measurement,
     tags |-> [place_id |-> FormatUint(apmData.PlaceID),
               operator_id |-> apmData.OperatorID,
               name |-> apmData.Name],
     fields |-> [load |-> LoadVal(b, apmData.Load),
                 geoLat |-> apmData.GeoLat,
                 geoLng |-> apmData.GeoLng],
     time |-> now]

\* influxdb2.NewPoint(ic.influxMeasurement, tags, fields, ts)
NewPoint(b, measurement, apmData, t) ==
    [measurement |-> measurement,
     tags |-> [place_id |-> FormatUint(apmData.PlaceID),
               operator_id |-> apmData.OperatorID,
               name |-> apmData.Name],
     fields |-> [load |-> LoadVal(b, apmData.Load),
                 geoLat |-> apmData.GeoLat,
                 geoLng |-> apmData.GeoLng],
     time |-> t]

\* the dry-run writer prints the tags, the fields and the time of the point
DryRunLine(point) ==
    [tags |-> point.tags, fields |-> point.fields, time |-> point.time]

----------------------------------------------------------------------------
(* The initial state *)

Init ==
    /\ build \in Builds
    /\ env \in Envs
    /\ build = "main.go" => ~env.DRY_RUN     \* main.go reads no DRY_RUN
    /\ ic = NoConfig
    /\ oneShot = FALSE
    /\ healthChecks = 0
    /\ pc = "main"
    /\ now = 0
    /\ ctxDone = FALSE
    /\ ts = -1
    /\ fetchCalls = 0
    /\ statusCode = 0
    /\ apmsData = <<>>
    /\ idx = 0
    /\ influx = <<>>
    /\ writeCalls = 0
    /\ dryLog = <<>>
    /\ result = "none"
    /\ ticker = FALSE
    /\ tickPending = FALSE
    /\ cyclesStarted = 0
    /\ ticksConsumed = 0
    /\ errorsLogged = 0

----------------------------------------------------------------------------
(* Startup *)

\* dry run exists in part_001 only
DryRunOf(b, e) == b = "part_001" /\ e.DRY_RUN

ParsedPlaceIDs(e) == e.FOXPOST_PLACE_IDS.toks

\* a loadConfig that reads the backend settings in dry-run mode too
ConfigPanics_BackendRequired(b, e) ==
    \/ ~e.FOXPOST_PLACE_IDS.set
    \/ Contains(e.FOXPOST_PLACE_IDS.toks, -1)
    \/ ~e.INFLUX_SERVER

\* loadConfig panics before it reaches the backend
ConfigPanics(b, e) ==
    \/ ~e.FOXPOST_PLACE_IDS.set
    \/ Contains(e.FOXPOST_PLACE_IDS.toks, -1)
    \/ (~DryRunOf(b, e) /\ ~e.INFLUX_SERVER)

LoadedConfig(b, e) ==
    [placeIDs |-> ParsedPlaceIDs(e),
     influxClient |-> ~DryRunOf(b, e),
     influxMeasurement |-> IF e.INFLUX_MEASUREMENT = NotSet THEN "foxpost"
                           ELSE e.INFLUX_MEASUREMENT,
     dryRun |-> DryRunOf(b, e)]

\* a main whose daemon branch goes straight to daemon(ic), so that the first
\* cycle waits for the first tick
LoadConfig_NoFirstCycle ==
    /\ pc = "main"
    /\ \/ /\ ConfigPanics(build, env)
          /\ pc' = "crashed"
          /\ result' = "config"
          /\ UNCHANGED <<ic, oneShot, healthChecks>>
       \/ /\ ~ConfigPanics(build, env)
          /\ DryRunOf(build, env)
          /\ ic' = LoadedConfig(build, env)
          /\ oneShot' = env.ONESHOT
          /\ pc' = IF env.ONESHOT THEN "invoke" ELSE "daemon"
          /\ UNCHANGED <<healthChecks, result>>
       \/ /\ ~ConfigPanics(build, env)
          /\ ~DryRunOf(build, env)
          /\ healthChecks' = healthChecks + 1
          /\ \E healthy \in BOOLEAN :
                IF healthy
                THEN /\ ic' = LoadedConfig(build, env)
                     /\ oneShot' = env.ONESHOT
                     /\ pc' = IF env.ONESHOT THEN "invoke" ELSE "daemon"
                     /\ UNCHANGED result
                ELSE /\ pc' = "crashed"
                     /\ result' = "config"
                     /\ UNCHANGED <<ic, oneShot>>
    /\ UNCHANGED <<build, env, now, ctxDone, ts, fetchCalls, statusCode,
                   apmsData, idx, influx, writeCalls, dryLog, schedVars>>

\* main up to the first invocation: loadConfig, then ONESHOT is read
LoadConfig ==
    /\ pc = "main"
    /\ \/ /\ ConfigPanics(build, env)
          /\ pc' = "crashed"
          /\ result' = "config"
          /\ UNCHANGED <<ic, oneShot, healthChecks>>
       \/ /\ ~ConfigPanics(build, env)
          /\ DryRunOf(build, env)
          /\ ic' = LoadedConfig(build, env)
          /\ oneShot' = env.ONESHOT
          /\ pc' = "invoke"
          /\ UNCHANGED <<healthChecks, result>>
       \/ /\ ~ConfigPanics(build, env)
          /\ ~DryRunOf(build, env)
          /\ healthChecks' = healthChecks + 1
          /\ \E healthy \in BOOLEAN :
                IF healthy
                THEN /\ ic' = LoadedConfig(build, env)
                     /\ oneShot' = env.ONESHOT
                     /\ pc' = "invoke"
                     /\ UNCHANGED result
                ELSE /\ pc' = "crashed"
                     /\ result' = "config"
                     /\ UNCHANGED <<ic, oneShot>>
    /\ UNCHANGED <<build, env, now, ctxDone, ts, fetchCalls, statusCode,
                   apmsData, idx, influx, writeCalls, dryLog, schedVars>>

----------------------------------------------------------------------------
(* The collection cycle *)

\* invoke: a context with the configured timeout, then run is entered
Invoke ==
    /\ pc = "invoke"
    /\ pc' = "fetching"
    /\ ctxDone' = FALSE
    /\ cyclesStarted' = cyclesStarted + 1
    /\ now' = 0
    /\ UNCHANGED <<cfgVars, ts, fetchCalls, statusCode, apmsData, idx, influx,
                   writeCalls, dryLog, result, ticker, tickPending,
                   ticksConsumed, errorsLogged>>

\* every call of the cycle takes time; the clock of the model stops at MaxTime
Tick(t) == IF t < MaxTime THEN t + 1 ELSE t

\* the timeout of the context passes: ic.timeout after invoke, which is at any
\* point of the cycle since the calls take any time
CtxExpires ==
    /\ pc \in {"fetching", "loop"}
    /\ ~ctxDone
    /\ ctxDone' = TRUE
    /\ UNCHANGED <<cfgVars, ts, fetchCalls, statusCode, apmsData, idx, influx,
                   writeCalls, dryLog, result, schedVars, pc, now>>

\* a run without the status check
StatusOK_Unchecked(status) == TRUE

\* resp.StatusCode == http.StatusOK
StatusOK(status) == status = 200

\* a run that captures ts only after the status check and the decode
Fetch_StampsAfterDecode ==
    /\ pc = "fetching"
    /\ now' = Tick(now)
    /\ fetchCalls' = fetchCalls + 1
    /\ \/ /\ result' = "transport"
          /\ pc' = "returned"
          /\ UNCHANGED <<ts, statusCode, apmsData, idx>>
       \/ \E status \in Statuses, decodes \in BOOLEAN, body \in Feeds :
             /\ statusCode' = status
             /\ IF ~StatusOK(status)
                THEN /\ result' = "status"
                     /\ pc' = "returned"
                     /\ UNCHANGED <<ts, apmsData, idx>>
                ELSE IF ~decodes
                THEN /\ result' = "decode"
                     /\ pc' = "returned"
                     /\ UNCHANGED <<ts, apmsData, idx>>
                ELSE /\ ts' = now'
                     /\ apmsData' = body
                     /\ idx' = 1
                     /\ pc' = "loop"
                     /\ UNCHANGED result
    /\ UNCHANGED <<cfgVars, ctxDone, influx, writeCalls, dryLog, schedVars>>

\* run up to the range loop: the request, the status check and the decode
Fetch ==
    /\ pc = "fetching"
    /\ now' = Tick(now)
    /\ fetchCalls' = fetchCalls + 1
    /\ \/ /\ result' = "transport"      \* cl.Do returned an error
          /\ pc' = "returned"
          /\ UNCHANGED <<ts, statusCode, apmsData, idx>>
       \/ \E status \in Statuses, decodes \in BOOLEAN, body \in Feeds :
             /\ ts' = now'
             /\ statusCode' = status
             /\ IF ~StatusOK(status)
                THEN /\ result' = "status"
                     /\ pc' = "returned"
                     /\ UNCHANGED <<apmsData, idx>>
                ELSE IF ~decodes
                THEN /\ result' = "decode"
                     /\ pc' = "returned"
                     /\ UNCHANGED <<apmsData, idx>>
                ELSE /\ apmsData' = body
                     /\ idx' = 1
                     /\ pc' = "loop"
                     /\ UNCHANGED result
    /\ UNCHANGED <<cfgVars, ctxDone, influx, writeCalls, dryLog, schedVars>>

\* an iteration that goes on to the next record without looking at ctx
EndIteration_Unchecked ==
    /\ idx' = idx + 1
    /\ UNCHANGED <<result, pc>>

\* the check at the end of an iteration of the range loop
EndIteration ==
    IF ctxDone      \* ctx.Err() != nil
    THEN /\ result' = "ctx"
         /\ pc' = "returned"
         /\ UNCHANGED idx
    ELSE /\ idx' = idx + 1
         /\ UNCHANGED <<result, pc>>

\* an iteration that logs the error of the writer and goes on to the next
\* record
ProcessRecord_SubmitErrorSkipped ==
    /\ pc = "loop"
    /\ idx <= Len(apmsData)
    /\ now' = Tick(now)
    /\ LET apmData == apmsData[idx] IN
       IF ~Contains(ic.placeIDs, apmData.PlaceID)
       THEN /\ EndIteration
            /\ UNCHANGED <<influx, writeCalls, dryLog>>
       ELSE IF ~LoadOk(build, apmData.Load)
       THEN /\ result' = "label"
            /\ pc' = "returned"
            /\ UNCHANGED <<idx, influx, writeCalls, dryLog>>
       ELSE LET p == NewPoint(build, ic.influxMeasurement, apmData, ts) IN
            IF ic.dryRun
            THEN /\ dryLog' = Append(dryLog, DryRunLine(p))
                 /\ EndIteration
                 /\ UNCHANGED <<influx, writeCalls>>
            ELSE /\ writeCalls' = writeCalls + 1
                 /\ UNCHANGED dryLog
                 /\ \E outcome \in WriteOutcomes :
                       CASE outcome = "ok" ->
                               /\ influx' = Append(influx, p)
                               /\ EndIteration
                         [] outcome = "err" ->
                               /\ UNCHANGED influx
                               /\ EndIteration
                         [] outcome = "panic" ->
                               /\ result' = "panic"
                               /\ pc' = "returned"
                               /\ UNCHANGED <<idx, influx>>
    /\ UNCHANGED <<cfgVars, ctxDone, ts, fetchCalls, statusCode, apmsData,
                   schedVars>>

\* an iteration that looks the label up before it looks at the place ID
ProcessRecord_ClassifiesFirst ==
    /\ pc = "loop"
    /\ idx <= Len(apmsData)
    /\ now' = Tick(now)
    /\ LET apmData == apmsData[idx] IN
       IF ~LoadOk(build, apmData.Load)
       THEN /\ result' = "label"
            /\ pc' = "returned"
            /\ UNCHANGED <<idx, influx, writeCalls, dryLog>>
       ELSE IF ~Contains(ic.placeIDs, apmData.PlaceID)
       THEN /\ EndIteration
            /\ UNCHANGED <<influx, writeCalls, dryLog>>
       ELSE LET p == NewPoint(build, ic.influxMeasurement, apmData, ts) IN
            IF ic.dryRun
            THEN /\ dryLog' = Append(dryLog, DryRunLine(p))
                 /\ EndIteration
                 /\ UNCHANGED <<influx, writeCalls>>
            ELSE /\ writeCalls' = writeCalls + 1
                 /\ UNCHANGED dryLog
                 /\ \E outcome \in WriteOutcomes :
                       CASE outcome = "ok" ->
                               /\ influx' = Append(influx, p)
                               /\ EndIteration
                         [] outcome = "err" ->
                               /\ result' = "submit"
                               /\ pc' = "returned"
                               /\ UNCHANGED <<idx, influx>>
                         [] outcome = "panic" ->
                               /\ result' = "panic"
                               /\ pc' = "returned"
                               /\ UNCHANGED <<idx, influx>>
    /\ UNCHANGED <<cfgVars, ctxDone, ts, fetchCalls, statusCode, apmsData,
                   schedVars>>

\* one iteration of the range loop of run
ProcessRecord ==
    /\ pc = "loop"
    /\ idx <= Len(apmsData)
    /\ now' = Tick(now)
    /\ LET apmData == apmsData[idx] IN
       IF ~Contains(ic.placeIDs, apmData.PlaceID)
       THEN /\ EndIteration
            /\ UNCHANGED <<influx, writeCalls, dryLog>>
       ELSE IF ~LoadOk(build, apmData.Load)
       THEN /\ result' = "label"
            /\ pc' = "returned"
            /\ UNCHANGED <<idx, influx, writeCalls, dryLog>>
       ELSE LET p == NewPoint(build, ic.influxMeasurement, apmData, ts) IN
            IF ic.dryRun
            THEN /\ dryLog' = Append(dryLog, DryRunLine(p))
                 /\ EndIteration
                 /\ UNCHANGED <<influx, writeCalls>>
            ELSE /\ writeCalls' = writeCalls + 1
                 /\ UNCHANGED dryLog
                 /\ \E outcome \in WriteOutcomes :
                       CASE outcome = "ok" ->
                               /\ influx' = Append(influx, p)
                               /\ EndIteration
                         [] outcome = "err" ->
                               /\ result' = "submit"
                               /\ pc' = "returned"
                               /\ UNCHANGED <<idx, influx>>
                         [] outcome = "panic" ->
                               /\ result' = "panic"
                               /\ pc' = "returned"
                               /\ UNCHANGED <<idx, influx>>
    /\ UNCHANGED <<cfgVars, ctxDone, ts, fetchCalls, statusCode, apmsData,
                   schedVars>>

\* a run that fetches the feed again when the loop is over
RunReturn_Refetches ==
    /\ pc = "loop"
    /\ idx > Len(apmsData)
    /\ pc' = "fetching"
    /\ UNCHANGED <<cfgVars, now, ctxDone, ts, fetchCalls, statusCode,
                   apmsData, idx, influx, writeCalls, dryLog, result,
                   schedVars>>

\* the range loop is over: return nil
RunReturn ==
    /\ pc = "loop"
    /\ idx > Len(apmsData)
    /\ result' = "nil"
    /\ pc' = "returned"
    /\ UNCHANGED <<cfgVars, now, ctxDone, ts, fetchCalls, statusCode,
                   apmsData, idx, influx, writeCalls, dryLog, schedVars>>

----------------------------------------------------------------------------
(* The scheduler *)

\* the one-shot branch without panic(err): main ends normally on an error
OneShotReturn_ErrorIgnored ==
    /\ pc = "returned"
    /\ oneShot
    /\ pc' = "exited"
    /\ UNCHANGED <<cfgVars, runVars, schedVars, now>>

\* main, one-shot branch: panic(err) or fall off the end of main
OneShotReturn ==
    /\ pc = "returned"
    /\ oneShot
    /\ pc' = IF result = "nil" THEN "exited" ELSE "crashed"
    /\ UNCHANGED <<cfgVars, runVars, schedVars, now>>

\* the frame of invoke and run is gone, and with it the context and the feed
RunLocalsGone ==
    /\ ctxDone' = FALSE
    /\ ts' = -1
    /\ fetchCalls' = 0
    /\ statusCode' = 0
    /\ apmsData' = <<>>
    /\ idx' = 0
    /\ influx' = <<>>
    /\ writeCalls' = 0
    /\ dryLog' = <<>>
    /\ result' = "none"

\* safeInvoke without the deferred recover: a panic of the cycle ends the
\* process
SafeInvokeReturn_NoRecover ==
    /\ pc = "returned"
    /\ ~oneShot
    /\ pc' = IF result = "panic" THEN "crashed"
             ELSE IF ticker THEN "waiting" ELSE "daemon"
    /\ errorsLogged' = IF result = "nil" THEN errorsLogged
                       ELSE errorsLogged + 1
    /\ IF result = "panic"
       THEN UNCHANGED runVars
       ELSE RunLocalsGone
    /\ UNCHANGED <<cfgVars, ticker, tickPending, cyclesStarted, ticksConsumed,
                   now>>

\* safeInvoke returns: the error is logged, a panic is recovered
SafeInvokeReturn ==
    /\ pc = "returned"
    /\ ~oneShot
    /\ pc' = IF ticker THEN "waiting" ELSE "daemon"
    /\ errorsLogged' = IF result = "nil" THEN errorsLogged
                       ELSE errorsLogged + 1
    /\ RunLocalsGone
    /\ UNCHANGED <<cfgVars, ticker, tickPending, cyclesStarted, ticksConsumed,
                   now>>

\* daemon: the ticker is created, the loop waits for the first tick
StartTicker ==
    /\ pc = "daemon"
    /\ ticker' = TRUE
    /\ pc' = "waiting"
    /\ UNCHANGED <<cfgVars, runVars, tickPending, cyclesStarted,
                   ticksConsumed, errorsLogged, now>>

\* the ticker fires; a tick that finds the channel full is dropped
TickFire ==
    /\ ticker
    /\ tickPending' = TRUE
    /\ UNCHANGED <<cfgVars, runVars, ticker, cyclesStarted, ticksConsumed,
                   errorsLogged, pc, now>>

\* a loop that starts the cycle of a tick without waiting for the cycle
\* before it (go safeInvoke(ic))
DaemonTick_Async ==
    /\ ticker
    /\ tickPending
    /\ cyclesStarted <= MaxCycles
    /\ tickPending' = FALSE
    /\ ticksConsumed' = ticksConsumed + 1
    /\ pc' = "invoke"
    /\ UNCHANGED <<cfgVars, runVars, ticker, cyclesStarted, errorsLogged, now>>

\* for range ticker.C: a tick is received and safeInvoke is called
DaemonTick ==
    /\ pc = "waiting"
    /\ tickPending
    /\ cyclesStarted < MaxCycles
    /\ tickPending' = FALSE
    /\ ticksConsumed' = ticksConsumed + 1
    /\ pc' = "invoke"
    /\ UNCHANGED <<cfgVars, runVars, ticker, cyclesStarted, errorsLogged, now>>

Next ==
    \/ LoadConfig
    \/ Invoke
    \/ CtxExpires
    \/ Fetch
    \/ ProcessRecord
    \/ RunReturn
    \/ OneShotReturn
    \/ SafeInvokeReturn
    \/ StartTicker
    \/ TickFire
    \/ DaemonTick

Spec == Init /\ [][Next]_vars

\* the steps of the process itself
Program ==
    \/ LoadConfig
    \/ Invoke
    \/ Fetch
    \/ ProcessRecord
    \/ RunReturn
    \/ OneShotReturn
    \/ SafeInvokeReturn
    \/ StartTicker
    \/ DaemonTick

\* the fair behaviours are explored for one configured list of place IDs, and
\* for the settings loadConfig rejects
FairInit ==
    /\ Init
    /\ env.FOXPOST_PLACE_IDS.toks \in {<<>>, <<1>>, <<-1>>}

\* the main goroutine keeps running, every call it makes returns, and the
\* ticker keeps firing
FairSpec ==
    /\ FairInit
    /\ [][Next]_vars
    /\ WF_vars(Program)
    /\ WF_vars(TickFire)

----------------------------------------------------------------------------
(* What the claims speak of *)

Range(s) == {s[i] : i \in DOMAIN s}

\* the configured set S of place IDs of interest
InterestSet == Range(ic.placeIDs)

Qualifies(apmData) == apmData.PlaceID \in InterestSet

\* the fixed vocabulary and the severity table of the specification
Vocabulary == {"", "normal loaded", "medium loaded", "overloaded"}

Severity(l) ==
    CASE l = "" -> 10
      [] l = "normal loaded" -> 10
      [] l = "medium loaded" -> 70
      [] l = "overloaded" -> 100
      [] OTHER -> -1

\* the data points of the running invocation, as submitted or as logged
Emitted ==
    IF ic.dryRun THEN dryLog
    ELSE [k \in DOMAIN influx |-> DryRunLine(influx[k])]

\* the records of the feed the range loop is done with
Processed == SubSeq(apmsData, 1, IF result = "ctx" THEN idx ELSE idx - 1)

\* how many elements of seq satisfy Test
Count(seq, Test(_)) == Cardinality({k \in DOMAIN seq : Test(seq[k])})

QualifyingOf(feed) == SelectSeq(feed, Qualifies)

InCycle == pc \in {"loop", "returned"}

ConfiguredMeasurement ==
    IF env.INFLUX_MEASUREMENT = NotSet THEN "foxpost"
    ELSE env.INFLUX_MEASUREMENT

DecimalString(n) == CASE n = 1 -> "1" [] n = 2 -> "2"

----------------------------------------------------------------------------
(* C1 *)

DaemonMode == cyclesStarted >= 1 /\ ~oneShot

\* C1: in daemon mode no outcome of a cycle ends the process: the process
\* never crashes or exits once the first cycle has started, every return of
\* a cycle leads back to the ticker loop, and after a failed cycle the next
\* tick starts a further cycle (while the model lets cycles start).
C1_DaemonSurvives ==
    /\ [](DaemonMode => pc \notin {"crashed", "exited"})
    /\ [][(DaemonMode /\ pc = "returned")
             => pc' \in {"returned", "daemon", "waiting"}]_vars
    /\ (/\ DaemonMode
        /\ pc = "returned"
        /\ result # "nil"
        /\ cyclesStarted < MaxCycles) ~> (pc = "fetching")

\* after a failed cycle the second cycle ran, and it ended in a panic
C1_Witness ==
    /\ DaemonMode
    /\ errorsLogged >= 1
    /\ cyclesStarted = 2
    /\ pc = "returned"
    /\ result = "panic"

----------------------------------------------------------------------------
(* C2 *)

Terminated == pc \in {"exited", "crashed"}

\* C2: in one-shot mode one cycle is started and never a second one; when it
\* returns an error (a final HTTP 500 among them) the next step of the
\* process is its abnormal end, when it returns success the next step is its
\* normal end, and a process that has ended takes no further step.
C2_OneShot ==
    /\ [](oneShot => (cyclesStarted <= 1 /\ ~ticker /\ ticksConsumed = 0))
    /\ []((oneShot /\ pc = "exited") => result = "nil")
    /\ []((oneShot /\ pc = "crashed") => result \notin {"nil", "none"})
    /\ []((oneShot /\ statusCode = 500)
            => (pc \in {"returned", "crashed"} /\ result = "status"))
    /\ [][(oneShot /\ pc = "returned")
             => pc' = (IF result = "nil" THEN "exited" ELSE "crashed")]_vars
    /\ [][~(oneShot /\ Terminated)]_vars

\* the one-shot process has crashed on a fetch that ended in HTTP 500
C2_Witness ==
    /\ oneShot
    /\ pc = "crashed"
    /\ statusCode = 500
    /\ cyclesStarted = 1

----------------------------------------------------------------------------
(* C3 *)

\* C3: a cycle that returns success has emitted exactly one data point per
\* record of the feed whose place ID is in the configured set, in feed order,
\* and none for any other record, and every point carries the one timestamp
\* the cycle captured.
C3_SuccessEmitsK ==
    (pc = "returned" /\ result = "nil") =>
       LET q == QualifyingOf(apmsData) IN
       /\ statusCode = 200
       /\ Len(Emitted) = Len(q)
       /\ \A k \in DOMAIN Emitted :
              /\ Emitted[k].tags.place_id = DecimalString(q[k].PlaceID)
              /\ Emitted[k].fields.geoLat = q[k].GeoLat
              /\ Emitted[k].time = ts
       /\ \A j, k \in DOMAIN Emitted : Emitted[j].time = Emitted[k].time

\* a successful cycle with two points, emitted while the clock moved on
C3_Witness ==
    /\ pc = "returned"
    /\ result = "nil"
    /\ Len(Emitted) = 2
    /\ now > ts

----------------------------------------------------------------------------
(* C6 *)

\* C6: a record is kept iff its place ID is a member of the configured list,
\* whatever the order of the list: at every point of a cycle the points
\* emitted for a place ID are as many as the records of that place ID the
\* loop is done with when the ID is in the list, one per record also when the
\* ID occurs twice in the list, and none when the ID is not in the list.
C6_Filter ==
    InCycle =>
       \A p \in PlaceIDs :
          LET HasTag(point) == point.tags.place_id = DecimalString(p)
              HasID(apmData) == apmData.PlaceID = p
          IN  /\ Contains(ic.placeIDs, p) <=> p \in InterestSet
              /\ Count(Emitted, HasTag) =
                    IF p \in InterestSet THEN Count(Processed, HasID) ELSE 0

\* the list names place ID 1 twice, or after place ID 2, and each of two
\* records of place ID 1 gave one point
C6_Witness ==
    /\ pc = "returned"
    /\ result = "nil"
    /\ ic.placeIDs \in {<<1, 1>>, <<2, 1>>}
    /\ Len(apmsData) = 2
    /\ \A k \in DOMAIN apmsData : apmsData[k].PlaceID = 1
    /\ Len(Emitted) = 2

----------------------------------------------------------------------------
(* C7 *)

\* the range loop took a step: it went on to the next record or returned
LoopStep == pc = "loop" /\ (pc' # pc \/ idx' # idx)

\* C7 as stated: a record with a label outside the vocabulary, at any
\* position and whatever its place ID, makes the cycle fail, and the points
\* emitted before it stay emitted.
C7_AnyUnrecognizedFails ==
    /\ []((pc = "returned" /\ result = "nil")
            => \A k \in DOMAIN apmsData : apmsData[k].Load \in Vocabulary)
    /\ [][(LoopStep /\ result' = "label")
             => (pc' = "returned" /\ Emitted' = Emitted)]_vars

\* C7, amended: a record whose place ID is in the configured set and whose
\* label is outside the vocabulary, at any position, makes the cycle fail:
\* no cycle with such a record returns success, the loop returns the label
\* error when it reaches the record, and the points emitted before it stay
\* emitted.
C7_QualifyingUnrecognizedFails ==
    /\ []((pc = "returned" /\ result = "nil")
            => \A k \in DOMAIN apmsData :
                  Qualifies(apmsData[k]) => apmsData[k].Load \in Vocabulary)
    /\ [][(/\ LoopStep
            /\ idx <= Len(apmsData)
            /\ Qualifies(apmsData[idx])
            /\ apmsData[idx].Load \notin Vocabulary)
             => result' = "label"]_vars
    /\ [][(LoopStep /\ result' = "label")
             => (pc' = "returned" /\ Emitted' = Emitted)]_vars

\* the cycle failed on the label of the second record, after the point of
\* the first record was emitted
C7_Witness ==
    /\ pc = "returned"
    /\ result = "label"
    /\ idx = 2
    /\ apmsData[2].Load \notin Vocabulary
    /\ Len(Emitted) = 1

----------------------------------------------------------------------------
(* C8 *)

DryRunMode == build = "part_001" /\ env.DRY_RUN

PlaceIDsValid ==
    /\ env.FOXPOST_PLACE_IDS.set
    /\ -1 \notin Range(env.FOXPOST_PLACE_IDS.toks)

\* C8: in dry-run mode the backend is never asked for its health and never
\* written to, no cycle ends in a submission error, startup fails only on the
\* place IDs (not on missing backend settings), and emitting a point adds one
\* log line and nothing else.
C8_DryRun ==
    /\ [](DryRunMode => /\ healthChecks = 0
                        /\ writeCalls = 0
                        /\ influx = <<>>
                        /\ result \notin {"submit", "panic"})
    /\ []((DryRunMode /\ result = "config") => ~PlaceIDsValid)
    /\ []((DryRunMode /\ PlaceIDsValid /\ pc # "main") => ic.dryRun)
    /\ [][(/\ DryRunMode
            /\ LoopStep
            /\ idx <= Len(apmsData)
            /\ Qualifies(apmsData[idx])
            /\ result' # "label")
             => /\ Len(dryLog') = Len(dryLog) + 1
                /\ result' \in {"none", "ctx"}
                /\ influx' = influx
                /\ writeCalls' = writeCalls]_vars

\* a dry run without any backend setting has completed a cycle and logged a
\* point
C8_Witness ==
    /\ DryRunMode
    /\ ~env.INFLUX_SERVER
    /\ pc = "returned"
    /\ result = "nil"
    /\ Len(dryLog) >= 1

----------------------------------------------------------------------------
(* C9 *)

FetchFailed == result \in {"transport", "status", "decode"}

\* C9: a cycle whose fetch ends in a transport error, in a response with a
\* status other than 200 or in a body that does not decode has returned an
\* error without emitting a point; a status other than 200 always ends the
\* cycle with the status error; and a cycle calls the fetch once: no call
\* before the fetch step, one call at every point after it.
C9_FetchFailure ==
    /\ FetchFailed => /\ pc \in {"returned", "crashed"}
                      /\ influx = <<>>
                      /\ dryLog = <<>>
                      /\ writeCalls = 0
    /\ statusCode \notin {0, 200} => result = "status"
    /\ pc = "fetching" => fetchCalls = 0
    /\ pc \in {"loop", "returned", "exited"} => fetchCalls = 1
    /\ fetchCalls <= 1

\* a cycle has returned the status error on a 404 response
C9_Witness ==
    /\ pc = "returned"
    /\ result = "status"
    /\ statusCode = 404
    /\ fetchCalls = 1

----------------------------------------------------------------------------
(* C10 *)

\* C10: an iteration of the loop that finds the deadline exceeded ends the
\* cycle, whether its record qualifies or not: the cancellation error is
\* returned unless the record itself failed, the loop does not go on to the
\* next record, the cancellation error is returned only when the deadline is
\* exceeded, and in a cycle that returned it the points are those of the
\* records up to the one the check followed.
C10_DeadlineCheck ==
    /\ [][(LoopStep /\ idx <= Len(apmsData) /\ ctxDone)
             => /\ pc' = "returned"
                /\ idx' = idx
                /\ result' \in {"ctx", "label", "submit", "panic"}]_vars
    /\ [][(/\ LoopStep
            /\ idx <= Len(apmsData)
            /\ ctxDone
            /\ ~Qualifies(apmsData[idx]))
             => (result' = "ctx" /\ Emitted' = Emitted)]_vars
    /\ [][(LoopStep /\ result' = "ctx") => ctxDone]_vars
    /\ []((pc = "returned" /\ result = "ctx")
            => /\ idx <= Len(apmsData)
               /\ Len(Emitted) = Len(QualifyingOf(SubSeq(apmsData, 1, idx))))

\* the deadline was found exceeded after a first record that does not
\* qualify, and the second record, which qualifies, was not emitted
C10_Witness ==
    /\ pc = "returned"
    /\ result = "ctx"
    /\ idx = 1
    /\ Len(apmsData) = 2
    /\ ~Qualifies(apmsData[1])
    /\ Qualifies(apmsData[2])
    /\ Emitted = <<>>

----------------------------------------------------------------------------
(* C4 *)

ExampleFeed == <<APM(1, "overloaded"), APM(2, "normal loaded")>>

\* C4: every emitted data point carries the configured measurement name, the
\* tags place_id (decimal string of the record's place ID), operator_id and
\* name of its record, and the fields load (10, 10, 70, 100 by the record's
\* label), geoLat and geoLng of its record; the feed [1 overloaded, 2 normal
\* loaded] with interest {1} gives exactly one point, with load 100.
C4_PointContents ==
    InCycle =>
       /\ \A k \in DOMAIN influx :
              influx[k].measurement = ConfiguredMeasurement
       /\ Len(Emitted) <= Len(QualifyingOf(apmsData))
       /\ \A k \in DOMAIN Emitted :
              LET r == QualifyingOf(apmsData)[k] IN
              /\ Emitted[k].tags =
                    [place_id |-> DecimalString(r.PlaceID),
                     operator_id |-> r.OperatorID,
                     name |-> r.Name]
              /\ Emitted[k].fields =
                    [load |-> Num(Severity(r.Load), 1),
                     geoLat |-> r.GeoLat,
                     geoLng |-> r.GeoLng]
       /\ (/\ apmsData = ExampleFeed
           /\ InterestSet = {1}
           /\ pc = "returned"
           /\ result = "nil")
          => /\ Len(Emitted) = 1
             /\ Emitted[1].fields.load = Num(100, 1)

----------------------------------------------------------------------------
(* C5 *)

\* C5: the classifier gives 10, 10, 70, 100 for the labels "", "normal
\* loaded", "medium loaded", "overloaded", and fails for every other label:
\* a cycle fails on a label only when the label is outside the vocabulary,
\* and every emitted load is the severity of its record's label.
C5_Classifier ==
    InCycle =>
       /\ result = "label" => apmsData[idx].Load \notin Vocabulary
       /\ Len(Emitted) <= Len(QualifyingOf(apmsData))
       /\ \A k \in DOMAIN Emitted :
              LET r == QualifyingOf(apmsData)[k] IN
              /\ r.Load \in Vocabulary
              /\ Emitted[k].fields.load = Num(Severity(r.Load), 1)
----------------------------------------------------------------------------
(* C11 *)

\* the fetch of the running invocation got a response
GotResponse == statusCode # 0

\* C11 as stated: the timestamp of the cycle is captured only after the
\* status was accepted and the body decoded: it is captured before the first
\* record is processed, and a cycle that fails on its status or on the
\* decode has captured no timestamp.
C11_TimestampAfterDecode ==
    /\ pc = "fetching" => ts = -1
    /\ pc = "loop" => ts # -1
    /\ result \in {"transport", "status", "decode"} => ts = -1

\* C11, amended: the timestamp of the cycle is captured when the request
\* returns a response, before the status check and the decode: no timestamp
\* before the fetch returns or in a cycle whose request fails, one timestamp
\* in every cycle that got a response (also when the status or the decode
\* then fails the cycle), it is the time the fetch returned, and it stays
\* what it is while the records are processed.
C11_TimestampAtResponse ==
    /\ [](pc = "fetching" => ts = -1)
    /\ [](result = "transport" => ts = -1)
    /\ []((InCycle /\ GotResponse) => (ts # -1 /\ ts <= now))
    /\ []((InCycle /\ result \in {"status", "decode"}) => ts # -1)
    /\ [][(pc = "fetching" /\ ts' # -1) => ts' = now']_vars
    /\ [][(pc = "loop") => ts' = ts]_vars

\* a cycle has failed on its status or on the decode, with the timestamp
\* captured
C11_Witness ==
    /\ pc = "returned"
    /\ ts # -1
    /\ result \in {"status", "decode"}

----------------------------------------------------------------------------
(* C12 *)

\* the lines of the points of the records of seq, in the order of seq
LinesOf(seq) ==
    [k \in DOMAIN seq |->
        DryRunLine(NewPoint(build, ic.influxMeasurement, seq[k], ts))]

IsPrefix(s, t) == Len(s) <= Len(t) /\ SubSeq(t, 1, Len(s)) = s

\* C12: at every state of a cycle the emitted points are the points of the
\* qualifying records of the prefix of the feed the loop is done with, in
\* feed order; a submission that fails ends the cycle with its error at the
\* record it failed on, without a point for that record and with the points
\* of the earlier records kept; the loop only ever adds one point at the end
\* of what it emitted, and a cycle that has returned emits nothing more.
C12_EmittedIsPrefix ==
    /\ [](InCycle => Emitted = LinesOf(QualifyingOf(Processed)))
    /\ [][(LoopStep /\ result' = "submit")
             => /\ pc' = "returned"
                /\ idx' = idx
                /\ Qualifies(apmsData[idx])
                /\ Emitted' = Emitted]_vars
    /\ [][(pc = "loop")
             => /\ IsPrefix(Emitted, Emitted')
                /\ Len(Emitted') <= Len(Emitted) + 1]_vars
    /\ [][(pc = "returned" /\ pc' \in {"returned", "crashed", "exited"})
             => Emitted' = Emitted]_vars
    /\ []((pc = "returned" /\ result = "submit")
            => Len(Emitted) = Len(QualifyingOf(SubSeq(apmsData, 1, idx - 1))))

\* the submission for the second record failed, the point of the first
\* record is still there
C12_Witness ==
    /\ pc = "returned"
    /\ result = "submit"
    /\ idx = 2
    /\ writeCalls = 2
    /\ Len(influx) = 1

----------------------------------------------------------------------------
(* C13 *)

\* an invocation of the cycle is in progress: run was entered and safeInvoke
\* (or invoke, in main) has not returned
Running == pc \in {"fetching", "loop", "returned"}

\* nothing is left of an invocation
FrameEmpty == runVars = <<FALSE, -1, 0, 0, <<>>, 0, <<>>, 0, <<>>, "none">>

\* C13: a cycle is started only when no cycle is in progress and nothing is
\* left of the cycle before it; the daemon loop receives a tick only while
\* it waits, with no cycle in progress; and a tick that fires while a cycle
\* is running changes nothing but the channel of the ticker: it starts no
\* cycle and does not touch the running one.
C13_NoOverlap ==
    /\ [][(cyclesStarted' # cyclesStarted)
             => /\ cyclesStarted' = cyclesStarted + 1
                /\ ~Running
                /\ FrameEmpty
                /\ pc' = "fetching"]_vars
    /\ [][(ticksConsumed' # ticksConsumed)
             => (pc = "waiting" /\ ~Running /\ FrameEmpty)]_vars
    /\ [][(Running /\ tickPending' # tickPending)
             => /\ tickPending'
                /\ pc' = pc
                /\ cyclesStarted' = cyclesStarted
                /\ ticksConsumed' = ticksConsumed
                /\ runVars' = runVars]_vars
    /\ []((Running /\ ~oneShot) => ticksConsumed = cyclesStarted - 1)

\* a tick fired while the second cycle was running, and waits in the channel
\* while the cycle processes its second record
C13_Witness ==
    /\ ~oneShot
    /\ cyclesStarted = 2
    /\ ticksConsumed = 1
    /\ pc = "loop"
    /\ idx = 2
    /\ tickPending

----------------------------------------------------------------------------
(* C14 *)

\* the process runs as a daemon: loadConfig returned and ONESHOT is not set
RunsAsDaemon == pc # "main" /\ result # "config" /\ ~oneShot

\* the cycles the scheduler has started: the invocations entered, and the
\* one safeInvoke is being called for
CyclesCalled == cyclesStarted + (IF pc = "invoke" THEN 1 ELSE 0)

\* C14: in daemon mode the cycles started are at every state one more than
\* the ticks received: the first cycle is called for without a tick, each
\* tick received is one tick taken from the channel and calls for one cycle,
\* which starts next; the ticker is created after the first cycle has
\* returned and nothing is left of it, and before that no tick exists.
C14_CyclesAndTicks ==
    /\ [](RunsAsDaemon => CyclesCalled = 1 + ticksConsumed)
    /\ [][(ticksConsumed' # ticksConsumed)
             => /\ ticksConsumed' = ticksConsumed + 1
                /\ tickPending /\ ~tickPending'
                /\ pc' = "invoke"]_vars
    /\ [][(pc = "invoke" /\ pc' # pc)
             => (pc' = "fetching" /\ cyclesStarted' = cyclesStarted + 1)]_vars
    /\ [](ticker => (RunsAsDaemon /\ cyclesStarted >= 1
                        /\ ~(cyclesStarted = 1 /\ Running)))
    /\ [](~ticker => (~tickPending /\ ticksConsumed = 0))
    /\ [][(~ticker /\ ticker')
             => (pc = "daemon" /\ cyclesStarted = 1 /\ FrameEmpty)]_vars

\* the daemon has received its first tick and runs its second cycle
C14_Witness ==
    /\ RunsAsDaemon
    /\ ticker
    /\ ticksConsumed = 1
    /\ cyclesStarted = 2
    /\ pc = "fetching"

----------------------------------------------------------------------------
(* C15 *)

\* C15: a cycle that was started gets to its end, with success or with an
\* error, when its calls return; from the fetch it goes to the loop or to
\* its end, from the loop it stays in the loop or goes to its end, and it
\* is at the fetch only when it comes from its start; the fetch is called
\* once; the loop goes from a record to the next one only, from the first
\* to at most the last, and a cycle that ends in success has gone through
\* all of them.
C15_CycleStateMachine ==
    /\ (pc = "fetching") ~> (pc = "returned")
    /\ [][(pc = "invoke" /\ pc' # pc) => pc' = "fetching"]_vars
    /\ [][(pc = "fetching") => pc' \in {"fetching", "loop", "returned"}]_vars
    /\ [][(pc = "loop") => pc' \in {"loop", "returned"}]_vars
    /\ [][(pc' = "fetching") => pc \in {"invoke", "fetching"}]_vars
    /\ [](fetchCalls <= 1)
    /\ [][(pc = "loop" /\ idx' # idx)
             => (idx <= Len(apmsData) /\ idx' = idx + 1 /\ pc' = "loop")]_vars
    /\ [](pc = "loop" => (1 <= idx /\ idx <= Len(apmsData) + 1))
    /\ [](pc = "returned" => result # "none")
    /\ []((pc = "returned" /\ result = "nil") => idx = Len(apmsData) + 1)

\* a cycle has gone through a feed of two records and ended in success
C15_Witness ==
    /\ pc = "returned"
    /\ result = "nil"
    /\ fetchCalls = 1
    /\ Len(apmsData) = 2
    /\ idx = 3

----------------------------------------------------------------------------
(* C16 *)

\* the loop is at a record whose place ID is not in the configured set
AtNonQualifying ==
    /\ pc = "loop"
    /\ idx <= Len(apmsData)
    /\ ~Qualifies(apmsData[idx])

\* C16: the label of a record whose place ID is not in the configured set
\* is never looked at.  The feeds of the model carry every label at every
\* such record, and the step of the loop over such a record is the same
\* whatever the label: it emits nothing, calls no writer, never returns the
\* label error, and ends the cycle or goes on to the next record as the
\* deadline alone decides.  The steps over the other records read their own
\* record only, so two feeds that differ in such labels only take the same
\* steps: no cycle fails on the label of such a record, and what a cycle
\* emitted is the points of the qualifying records alone.
C16_NonQualifyingLabelUnread ==
    /\ [][(AtNonQualifying /\ LoopStep)
             => /\ Emitted' = Emitted
                /\ writeCalls' = writeCalls
                /\ influx' = influx
                /\ dryLog' = dryLog
                /\ result' = (IF ctxDone THEN "ctx" ELSE "none")
                /\ pc' = (IF ctxDone THEN "returned" ELSE "loop")
                /\ idx' = (IF ctxDone THEN idx ELSE idx + 1)]_vars
    /\ [](result = "label" => Qualifies(apmsData[idx]))
    /\ []((pc = "returned" /\ result = "nil")
            => Len(Emitted) = Len(QualifyingOf(apmsData)))

\* a cycle has succeeded on a feed whose first record, not in the configured
\* set, carries a label outside the vocabulary, and emitted the point of the
\* second
C16_Witness ==
    /\ pc = "returned"
    /\ result = "nil"
    /\ Len(apmsData) = 2
    /\ ~Qualifies(apmsData[1])
    /\ apmsData[1].Load \notin Vocabulary
    /\ Qualifies(apmsData[2])
    /\ Len(Emitted) = 1

====
